---- MODULE Spec2Model ----
(***************************************************************************)
(* Rotation core of the cleaning-schedule API (src/server.js).             *)
(*                                                                         *)
(* An instant (a JavaScript Date) is a record [day, ms]: day is the number *)
(* of whole days since 1970-01-01 UTC and ms the milliseconds within that  *)
(* day, so the time value is day * MsPerDay + ms.  The pair is used        *)
(* because the time value itself (about 1.7e12 for 2024) does not fit the  *)
(* integers of the model checker; JavaScript numbers hold it exactly.      *)
(***************************************************************************)
EXTENDS Integers, Sequences, FiniteSets, TLC

----------------------------------------------------------------------------
(* Program constants *)

\* 1000 * 60 * 60 * 24, the divisor of lines 91 and 123
MsPerDay == 1000 * 60 * 60 * 24

\* "Each rotation is 14 days (2 weeks)": the literal 14 of lines 95, 99, 125, 134
PeriodDays == 14

\* addDays(rotationStart, 13): the literal 13 of lines 100 and 135
PeriodEndOffset == 13

\* getUpcomingRotations = (startDate, people, count = 5)
DefaultCount == 5

\* JavaScript's undefined (an out-of-range array read)
Undefined == "undefined"

----------------------------------------------------------------------------
(* JavaScript arithmetic *)

\* the integer part of a / b, rounded toward zero, for integers a and b > 0
TruncDiv(a, b) == IF a >= 0 THEN a \div b ELSE -((-a) \div b)

\* Math.floor(a / b) rounding toward zero instead (Math.trunc, or | 0)
MathFloorDivTowardZero(a, b) == TruncDiv(a, b)

\* Math.floor(a / b) for integers a and b > 0
MathFloorDiv(a, b) == a \div b

\* A number that may be NaN is the record [nan, val]: val is the integer
\* when nan is FALSE.
Num(v) == [nan |-> FALSE, val |-> v]
NaN == [nan |-> TRUE, val |-> 0]

\* a % b guarded against a zero divisor (never NaN)
JsRemZeroGuard(a, b) == IF b = 0 THEN Num(0) ELSE Num(a - b * TruncDiv(a, b))

\* a % b: the remainder takes the sign of the dividend; x % 0 is NaN.
\* (-0 is written 0: people[-0] reads people[0] and JSON writes -0 as 0.)
JsRem(a, b) == IF b = 0 THEN NaN ELSE Num(a - b * TruncDiv(a, b))

\* people[i]: undefined unless i is an index of the array
ArrayGet(arr, i) ==
    IF i.nan THEN Undefined
    ELSE IF i.val >= 0 /\ i.val < Len(arr) THEN arr[i.val + 1] ELSE Undefined

----------------------------------------------------------------------------
(* Date built-ins used by the helpers (ECMAScript time values, UTC) *)

Inst(d, m) == [day |-> d, ms |-> m]

DaysInYear(y) ==
    IF y % 4 # 0 THEN 365
    ELSE IF y % 100 # 0 THEN 366
    ELSE IF y % 400 # 0 THEN 365 ELSE 366

InLeapYear(y) == DaysInYear(y) = 366

DayFromYear(y) ==
    365 * (y - 1970) + ((y - 1969) \div 4) - ((y - 1901) \div 100)
        + ((y - 1601) \div 400)

\* getUTCFullYear: the year whose days contain the day number
YearFromDay(d) ==
    CHOOSE y \in (1970 + d \div 366)..(1970 + d \div 365 + 1) :
        DayFromYear(y) <= d /\ d < DayFromYear(y + 1)

\* days of the year before month m (0 = January)
DaysBeforeMonth(m, leap) ==
    LET l == IF leap THEN 1 ELSE 0
    IN  CASE m = 0 -> 0
          [] m = 1 -> 31
          [] m = 2 -> 59 + l
          [] m = 3 -> 90 + l
          [] m = 4 -> 120 + l
          [] m = 5 -> 151 + l
          [] m = 6 -> 181 + l
          [] m = 7 -> 212 + l
          [] m = 8 -> 243 + l
          [] m = 9 -> 273 + l
          [] m = 10 -> 304 + l
          [] m = 11 -> 334 + l
          [] m = 12 -> 365 + l

\* getUTCMonth
MonthFromDay(d) ==
    LET y == YearFromDay(d)
        w == d - DayFromYear(y)
    IN  CHOOSE m \in 0..11 :
            /\ DaysBeforeMonth(m, InLeapYear(y)) <= w
            /\ w < DaysBeforeMonth(m + 1, InLeapYear(y))

\* getUTCDate: the day of the month, 1-based
DateFromDay(d) ==
    LET y == YearFromDay(d)
    IN  d - DayFromYear(y) - DaysBeforeMonth(MonthFromDay(d), InLeapYear(y)) + 1

\* getUTCDay: 0 = Sunday .. 6 = Saturday (1970-01-01 was a Thursday)
WeekDay(d) == (d + 4) % 7

\* MakeDay(year, month, date): date may lie outside the month, and the
\* result then runs over into the neighbouring months
MakeDay(y, m, dt) ==
    LET ym == y + (m \div 12)
        mn == m % 12
    IN  DayFromYear(ym) + DaysBeforeMonth(mn, InLeapYear(ym)) + dt - 1

\* MakeTime(hour, min, sec, ms)
MakeTime(h, mi, s, ms) == ((h * 60 + mi) * 60 + s) * 1000 + ms

\* Date.UTC(year, month, date, h, mi, s, ms)
DateUTC(y, m, dt, h, mi, s, ms) == Inst(MakeDay(y, m, dt), MakeTime(h, mi, s, ms))

\* d.setUTCDate(dt): the time within the day is kept
SetUTCDate(t, dt) ==
    Inst(MakeDay(YearFromDay(t.day), MonthFromDay(t.day), dt), t.ms)

\* d.setUTCHours(h, mi, s, ms): the day is kept
SetUTCHours(t, h, mi, s, ms) == Inst(t.day, MakeTime(h, mi, s, ms))

\* a - b on two Dates, in milliseconds, as the pair [days, ms] standing for
\* days * MsPerDay + ms
DateDiff(a, b) == [days |-> a.day - b.day, ms |-> a.ms - b.ms]

\* a <= b and a >= b on two Dates
DateLeq(a, b) == a.day < b.day \/ (a.day = b.day /\ a.ms <= b.ms)
DateGeq(a, b) == DateLeq(b, a)

----------------------------------------------------------------------------
(* The helpers of src/server.js *)

\* getMondayOfWeek, without the Sunday adjustment
getMondayOfWeekNoSunday(date) ==
    LET day  == WeekDay(date.day)
        diff == DateFromDay(date.day) - day + 1
    IN  DateUTC(YearFromDay(date.day), MonthFromDay(date.day), diff, 0, 0, 0, 0)

getMondayOfWeek(date) ==
    LET d    == date
        day  == WeekDay(d.day)
        diff == DateFromDay(d.day) - day + (IF day = 0 THEN -6 ELSE 1)
    IN  DateUTC(YearFromDay(d.day), MonthFromDay(d.day), diff, 0, 0, 0, 0)

addDays(date, days) == SetUTCDate(date, DateFromDay(date.day) + days)

\* Math.floor((now - startMonday) / (1000 * 60 * 60 * 24)), on the absolute
\* distance instead of the signed one
daysSinceStartAbs(now, startMonday) ==
    LET diff == DateDiff(now, startMonday)
        n    == diff.days + MathFloorDiv(diff.ms, MsPerDay)
    IN  IF n >= 0 THEN n
        ELSE IF diff.ms % MsPerDay = 0 THEN -n ELSE -n - 1

\* Math.floor((now - startMonday) / (1000 * 60 * 60 * 24)): the difference is
\* days * MsPerDay + ms, so its quotient by MsPerDay is days + ms / MsPerDay
daysSinceStart(now, startMonday) ==
    LET diff == DateDiff(now, startMonday)
    IN  diff.days + MathFloorDiv(diff.ms, MsPerDay)

\* the period index rounded to the nearest period: Math.round(days / 14)
rotationNumberOfRounded(days) ==
    MathFloorDiv(2 * days + PeriodDays, 2 * PeriodDays)

\* the end of the period without its time of day: addDays(rotationStart, 13)
rotationEndOfMidnight(rotationStart) ==
    addDays(rotationStart, PeriodEndOffset)

\* Math.floor(daysSinceStart / 14)
rotationNumberOf(days) == MathFloorDiv(days, PeriodDays)

\* rotationNumber % people.length
personIndexOf(rotationNumber, people) == JsRem(rotationNumber, Len(people))

\* addDays(startMonday, rotationNumber * 14)
rotationStartOf(startMonday, rotationNumber) ==
    addDays(startMonday, rotationNumber * PeriodDays)

\* the end of the period one day late: addDays(rotationStart, 14)
rotationEndOfLate(rotationStart) ==
    SetUTCHours(addDays(rotationStart, PeriodEndOffset + 1), 23, 59, 59, 999)

\* addDays(rotationStart, 13), then setUTCHours(23, 59, 59, 999)
rotationEndOf(rotationStart) ==
    SetUTCHours(addDays(rotationStart, PeriodEndOffset), 23, 59, 59, 999)

\* getCurrentRotation(startDate, people); now is the clock read at line 83
getCurrentRotation(startDate, people, now) ==
    LET start          == startDate
        startMonday    == getMondayOfWeek(start)
        days           == daysSinceStart(now, startMonday)
        rotationNumber == rotationNumberOf(days)
        personIndex    == personIndexOf(rotationNumber, people)
        rotationStart  == rotationStartOf(startMonday, rotationNumber)
        rotationEnd    == rotationEndOf(rotationStart)
    IN  [ currentPerson      |-> ArrayGet(people, personIndex),
          currentPersonIndex |-> personIndex,
          rotationNumber     |-> rotationNumber + 1,
          periodStart        |-> rotationStart,
          periodEnd          |-> rotationEnd,
          weeksSinceStart    |-> MathFloorDiv(days, 7),
          daysSinceStart     |-> days,
          isActive           |-> DateGeq(now, rotationStart)
                                     /\ DateLeq(now, rotationEnd) ]

\* one pass of the loop body of getUpcomingRotations (lines 131 to 144)
upcomingEntry(startMonday, people, currentRotationNumber, i) ==
    LET rotationNumber == currentRotationNumber + i
        personIndex    == personIndexOf(rotationNumber, people)
        rotationStart  == rotationStartOf(startMonday, rotationNumber)
        rotationEnd    == rotationEndOf(rotationStart)
    IN  [ person         |-> ArrayGet(people, personIndex),
          rotationNumber |-> rotationNumber + 1,
          periodStart    |-> rotationStart,
          periodEnd      |-> rotationEnd,
          isCurrent      |-> FALSE ]

\* for (let i = 1; i <= count; i++) rotations.push(...)
RECURSIVE upcomingLoop(_, _, _, _, _, _)
upcomingLoop(startMonday, people, currentRotationNumber, count, i, rotations) ==
    IF i <= count
    THEN upcomingLoop(startMonday, people, currentRotationNumber, count, i + 1,
             Append(rotations,
                    upcomingEntry(startMonday, people, currentRotationNumber, i)))
    ELSE rotations

\* the loop started at the current rotation: for (let i = 0; ...)
upcomingFromCurrent(startMonday, people, currentRotationNumber, count) ==
    upcomingLoop(startMonday, people, currentRotationNumber, count, 0, << >>)

\* const rotations = []; the loop from i = 1; return rotations
upcomingFrom(startMonday, people, currentRotationNumber, count) ==
    upcomingLoop(startMonday, people, currentRotationNumber, count, 1, << >>)

\* getUpcomingRotations(startDate, people, count); now is the clock read at
\* line 118
getUpcomingRotations(startDate, people, now, count) ==
    LET start                 == startDate
        startMonday           == getMondayOfWeek(start)
        days                  == daysSinceStart(now, startMonday)
        currentRotationNumber == rotationNumberOf(days)
    IN  upcomingFrom(startMonday, people, currentRotationNumber, count)

----------------------------------------------------------------------------
(* Bounds of the model *)

\* the longest people list
MaxPeople == 3

\* the largest count passed explicitly to getUpcomingRotations
MaxCount == 2

\* whole periods of clock time modelled before and after the anchor week
PeriodsBefore == 2
PeriodsAfter == 3

Names == << "A", "B", "C", "D", "E", "F" >>

\* people lists as POST /schedule stores them: non-empty, order kept
PeopleLists == { SubSeq(Names, 1, n) : n \in 1..MaxPeople }

\* the same with the empty list, which the core's callers never pass
AnyPeopleLists == PeopleLists \cup { << >> }

\* start dates: every day of the week of Monday 2024-01-01, at midnight and at
\* noon UTC
AnchorWeekStart == MakeDay(2024, 0, 1)
Anchors ==
    { Inst(d, m) : d \in AnchorWeekStart..(AnchorWeekStart + 6),
                   m \in { 0, MsPerDay \div 2 } }

\* clock readings: three instants a day, the first and the last millisecond
\* of the day among them
ClockMs == { 0, MsPerDay \div 2, MsPerDay - 1 }
ClockFirstDay == AnchorWeekStart - PeriodDays * PeriodsBefore
ClockLastDay == AnchorWeekStart + PeriodDays * (PeriodsAfter + 1) - 1
ClockInstants == { Inst(d, m) : d \in ClockFirstDay..ClockLastDay, m \in ClockMs }
ClockEnd == Inst(ClockLastDay, MsPerDay - 1)

\* days of start dates after the clock window: more than a year of them, with
\* a leap day, a year's end and every month's end
AlignDays == 400
AlignAnchors ==
    { Inst(d, m) : d \in (ClockLastDay - 2)..(ClockLastDay + AlignDays),
                   m \in { 0, MsPerDay \div 2 } }

\* the next clock reading after t
NextInstant(t) ==
    IF t.ms = MsPerDay - 1 THEN Inst(t.day + 1, 0)
    ELSE Inst(t.day, CHOOSE m \in ClockMs :
                         m > t.ms /\ \A k \in ClockMs : k > t.ms => m <= k)

Counts == (-1)..MaxCount

----------------------------------------------------------------------------
(* State *)

VARIABLES
    people,     \* schedule.people, the second argument of both helpers
    startDate,  \* schedule.startDate, the first argument of both helpers
    now,        \* the clock, read by new Date() at lines 83 and 118
    call,       \* the call that has just returned, or NoCall
    result,     \* what that call returned
    prev,       \* the call before it, with its clock reading and its value
    store,      \* the schedules collection of the database
    handlers,   \* the route handlers in progress, by connection
    apiKeyEnv   \* process.env.API_KEY

vars == << people, startDate, now, call, result, prev, store, handlers,
           apiKeyEnv >>

\* the state of the routes, which the helpers neither read nor write
httpVars == << store, handlers, apiKeyEnv >>

NoCall == [ op |-> "none", countGiven |-> FALSE, count |-> 0, outcome |-> "none" ]
NoResult == << >>

\* Both helpers run to their return statement on every input: no statement
\* of lines 82 to 148 throws on an array and a Date.
Returned(op, countGiven, count) ==
    [ op |-> op, countGiven |-> countGiven, count |-> count,
      outcome |-> "returned" ]

NoPrev == [ call |-> NoCall, now |-> Inst(0, 0), result |-> NoResult ]

\* the connections served at once
Handlers == { "h1", "h2" }

\* a Schedule document: _id and the four fields of scheduleSchema
Document(id, p, sd, created, updated) ==
    [ id |-> id, people |-> p, startDate |-> sd, createdAt |-> created,
      updatedAt |-> updated ]

\* a handler that holds no document, and one that has sent no response
NoDoc == Document(0, << >>, Inst(0, 0), Inst(0, 0), Inst(0, 0))
NoResp == [ status |-> 0, body |-> << >> ]

\* a connection without a request.  A handler keeps its request, the
\* document it works on with the paths it has set, the currentRotation it
\* has computed, its response, and the collection as it was when the request
\* arrived.
IdleHandler ==
    [ method |-> "idle", pc |-> "idle", req |-> << >>, doc |-> NoDoc,
      modified |-> {}, cur |-> << >>, resp |-> NoResp, before |-> {} ]

\* process.env.API_KEY when the variable is not set
NoApiKey == "<unset>"

\* no request is being served and the collection is empty
HttpQuiet ==
    /\ store = {}
    /\ handlers = [ h \in Handlers |-> IdleHandler ]
    /\ apiKeyEnv = NoApiKey

InitWith(lists) ==
    /\ people \in lists
    /\ startDate \in Anchors
    /\ now \in ClockInstants
    /\ call = NoCall
    /\ result = NoResult
    /\ prev = NoPrev
    /\ HttpQuiet

Init == InitWith(PeopleLists)

\* a schedule whose start date is the instant the program starts at
InitAlign ==
    /\ people = SubSeq(Names, 1, 1)
    /\ startDate \in Anchors \cup AlignAnchors
    /\ now = startDate
    /\ call = NoCall
    /\ result = NoResult
    /\ prev = NoPrev
    /\ HttpQuiet

InitAny == InitWith(AnyPeopleLists)

\* The helpers are synchronous: a call runs from its clock reading to its
\* return statement before anything else does, and its value is handed to the
\* caller before the next call.
Idle == call = NoCall

\* time passes between two calls
Tick ==
    /\ Idle
    /\ ~DateGeq(now, ClockEnd)
    /\ now' = NextInstant(now)
    /\ UNCHANGED << people, startDate, call, result, prev >>
    /\ UNCHANGED httpVars

\* a call whose Date arguments are changed in place: start, startMonday and
\* rotationStart are one object, left at the end of the current period
CallCurrentInPlace ==
    /\ Idle
    /\ call' = Returned("getCurrentRotation", FALSE, 0)
    /\ result' = getCurrentRotation(startDate, people, now)
    /\ startDate' = result'.periodEnd
    /\ UNCHANGED << people, now, prev >>
    /\ UNCHANGED httpVars

\* getCurrentRotation(schedule.startDate, schedule.people)
CallCurrent ==
    /\ Idle
    /\ call' = Returned("getCurrentRotation", FALSE, 0)
    /\ result' = getCurrentRotation(startDate, people, now)
    /\ UNCHANGED << people, startDate, now, prev >>
    /\ UNCHANGED httpVars

\* getUpcomingRotations(schedule.startDate, schedule.people, c)
CallUpcoming(c) ==
    /\ Idle
    /\ call' = Returned("getUpcomingRotations", TRUE, c)
    /\ result' = getUpcomingRotations(startDate, people, now, c)
    /\ UNCHANGED << people, startDate, now, prev >>
    /\ UNCHANGED httpVars

\* getUpcomingRotations(schedule.startDate, schedule.people): count = 5
CallUpcomingDefault ==
    /\ Idle
    /\ call' = Returned("getUpcomingRotations", FALSE, DefaultCount)
    /\ result' = getUpcomingRotations(startDate, people, now, DefaultCount)
    /\ UNCHANGED << people, startDate, now, prev >>
    /\ UNCHANGED httpVars

\* the caller takes the returned value
Return ==
    /\ ~Idle
    /\ call' = NoCall
    /\ result' = NoResult
    /\ UNCHANGED << people, startDate, now, prev >>
    /\ UNCHANGED httpVars

\* the caller takes the returned value and keeps it beside the call made
ReturnRemember ==
    /\ ~Idle
    /\ prev' = [ call |-> call, now |-> now, result |-> result ]
    /\ call' = NoCall
    /\ result' = NoResult
    /\ UNCHANGED << people, startDate, now >>
    /\ UNCHANGED httpVars

Next ==
    \/ Tick
    \/ CallCurrent
    \/ \E c \in Counts : CallUpcoming(c)
    \/ CallUpcomingDefault
    \/ Return

Spec == Init /\ [][Next]_vars

\* the same program called with any people list, the empty one included
SpecAny == InitAny /\ [][Next]_vars

\* the program started on the start date of its schedule, for start dates
\* over more than a year
SpecAlign == InitAlign /\ [][Next]_vars

\* a caller that calls a helper again and compares the two values; the clock
\* starts in the last days of the window
RepeatDays == 2

InitRepeat ==
    /\ people \in PeopleLists
    /\ startDate = Inst(AnchorWeekStart, 0)
    /\ now \in { t \in ClockInstants : t.day > ClockLastDay - RepeatDays }
    /\ call = NoCall
    /\ result = NoResult
    /\ prev = NoPrev
    /\ HttpQuiet

NextRepeat ==
    \/ Tick
    \/ CallCurrent
    \/ \E c \in Counts : CallUpcoming(c)
    \/ CallUpcomingDefault
    \/ ReturnRemember

SpecRepeat == InitRepeat /\ [][NextRepeat]_vars

-----------------------------------------------------------------------------
(* The routes: request values *)

\* a value of a JSON body or of a header, with its JavaScript type
JsUndefined == [ type |-> "undefined", val |-> << >> ]
JsString(s) == [ type |-> "string", val |-> << s >> ]
JsArray(a) == [ type |-> "array", val |-> a ]

\* !v, for the values above: undefined and "" are falsy, any array is truthy
Falsy(v) == ~(v.type = "array") /\ ~(v.type = "string" /\ v.val[1] # "")

\* Array.isArray(v)
IsArray(v) == v.type = "array"

\* an array element that is a JSON number, which has no trim method
NumberElement == "<number>"

\* person.trim()
Trim(s) ==
    CASE s = " C " -> "C"
      [] s = "D "  -> "D"
      [] OTHER     -> s

\* people.map((person) => person.trim()) runs to its end
MapTrimReturns(a) == \A i \in 1..Len(a) : a[i] # NumberElement

\* people.map((person) => person.trim())
MapTrim(a) == [ i \in 1..Len(a) |-> Trim(a[i]) ]

\* new Date(startDate), and whether isNaN(parsedStartDate.getTime())
InvalidDate == [ valid |-> FALSE, t |-> Inst(0, 0) ]
ValidDate(t) == [ valid |-> TRUE, t |-> t ]
NewDate(s) ==
    CASE s = "2024-01-01"           -> ValidDate(DateUTC(2024, 0, 1, 0, 0, 0, 0))
      [] s = "2024-01-10T12:00:00Z" ->
             ValidDate(DateUTC(2024, 0, 10, 12, 0, 0, 0))
      [] OTHER                      -> InvalidDate

\* req.body.people of the requests sent
BodyPeople ==
    { JsUndefined, JsString("A,B"), JsArray(<< >>), JsArray(<< "A", "B" >>),
      JsArray(<< " C " >>), JsArray(<< "A", NumberElement >>) }

\* req.body.startDate of the requests sent
BodyStartDate ==
    { JsUndefined, JsString("soon"), JsString("2024-01-01"),
      JsString("2024-01-10T12:00:00Z") }

\* req.header("X-API-Key") of the requests sent
ApiKeyHeaders ==
    { JsUndefined, JsString(""), JsString("secret"), JsString("guess") }

\* values of process.env.API_KEY
ApiKeyEnvs == { NoApiKey, "secret" }

Request(key, p, d) == [ apiKey |-> key, people |-> p, startDate |-> d ]
Requests ==
    { Request(key, p, d) :
          key \in ApiKeyHeaders, p \in BodyPeople, d \in BodyStartDate }

\* a middleware that lets every key through while no API key is configured
requireApiKeyOpenWhenUnset(apiKey, env) ==
    IF Falsy(apiKey) THEN 401
    ELSE IF env # NoApiKey /\ apiKey.val[1] # env THEN 403
    ELSE 0

\* requireApiKey: the status it answers with, or 0 when it calls next()
requireApiKey(apiKey, env) ==
    IF Falsy(apiKey) THEN 401
    ELSE IF apiKey.val[1] # env THEN 403
    ELSE 0

-----------------------------------------------------------------------------
(* The routes: the collection and the handlers *)

\* Schedule.findOne().sort({ createdAt: -1 }): a document with the latest
\* createdAt (any of them when several share it)
FindOneResults(coll) ==
    { r \in coll : \A q \in coll : DateLeq(q.createdAt, r.createdAt) }

\* the _id of a new document: one that no document has, stored or in memory
IdsInUse ==
    { r.id : r \in store } \cup { handlers[h].doc.id : h \in Handlers }
FreshId ==
    CHOOSE n \in 1..(Cardinality(IdsInUse) + 1) :
        n \notin IdsInUse /\ \A k \in 1..(n - 1) : k \in IdsInUse

\* res.status(status).json(body)
Answer(hr, status, body) ==
    [ hr EXCEPT !.pc = "done", !.resp = [ status |-> status, body |-> body ] ]
Error(msg) == [ error |-> msg ]

\* a request arrives on connection h
Arrived(method, req) ==
    [ IdleHandler EXCEPT !.method = method, !.req = req, !.before = store ]

\* the helpers' variables, which the routes leave alone
coreVars == << people, startDate, call, result, prev >>

\* a validation that lets the empty array through
PostValidationAnyArray(req) ==
    IF Falsy(req.people) \/ ~IsArray(req.people)
    THEN [ status |-> 400,
           body |-> Error("People array is required and cannot be empty") ]
    ELSE IF Falsy(req.startDate)
    THEN [ status |-> 400, body |-> Error("Start date is required") ]
    ELSE IF ~NewDate(req.startDate.val[1]).valid
    THEN [ status |-> 400, body |-> Error("Invalid start date format") ]
    ELSE NoResp

\* the validation of POST /schedule: the status and message it answers with,
\* or status 0 when the body passes
PostValidation(req) ==
    IF Falsy(req.people) \/ ~IsArray(req.people) \/ Len(req.people.val) = 0
    THEN [ status |-> 400,
           body |-> Error("People array is required and cannot be empty") ]
    ELSE IF Falsy(req.startDate)
    THEN [ status |-> 400, body |-> Error("Start date is required") ]
    ELSE IF ~NewDate(req.startDate.val[1]).valid
    THEN [ status |-> 400, body |-> Error("Invalid start date format") ]
    ELSE NoResp

\* POST /schedule up to its first await: requireApiKey, the validation, and
\* the call of Schedule.deleteMany({})
PostSchedule(h, req) ==
    /\ handlers[h].pc = "idle"
    /\ LET auth  == requireApiKey(req.apiKey, apiKeyEnv)
           hr    == Arrived("POST", req)
           valid == PostValidation(req)
       IN  handlers' = [ handlers EXCEPT ![h] =
               IF auth = 401 THEN Answer(hr, 401, Error("API key required"))
               ELSE IF auth = 403 THEN Answer(hr, 403, Error("Invalid API key"))
               ELSE IF valid.status # 0
               THEN Answer(hr, valid.status, valid.body)
               ELSE [ hr EXCEPT !.pc = "deleteMany" ] ]
    /\ UNCHANGED << now, store, apiKeyEnv >>
    /\ UNCHANGED coreVars

\* the body of the answer of POST and PUT /schedule
ScheduleBody(msg, doc, t) ==
    [ message |-> msg,
      schedule |-> [ people |-> doc.people, startDate |-> doc.startDate,
                     currentRotation |->
                         getCurrentRotation(doc.startDate, doc.people, t),
                     createdAt |-> doc.createdAt,
                     updatedAt |-> doc.updatedAt ] ]

\* POST /schedule from the completion of deleteMany to the call of save: the
\* documents are gone, then the new document is built (createdAt by default
\* Date.now); a person without trim throws, and so does a failed deleteMany
PostDeleteMany(h) ==
    /\ handlers[h].pc = "deleteMany"
    /\ handlers[h].method = "POST"
    /\ \E ok \in BOOLEAN :
        LET hr  == handlers[h]
            req == hr.req
        IN  IF ~ok
            THEN /\ handlers' =
                        [ handlers EXCEPT ![h] =
                              Answer(hr, 500, Error("deleteMany failed")) ]
                 /\ store' = store
            ELSE /\ store' = {}
                 /\ handlers' = [ handlers EXCEPT ![h] =
                        IF ~MapTrimReturns(req.people.val)
                        THEN Answer(hr, 500,
                                    Error("person.trim is not a function"))
                        ELSE [ hr EXCEPT
                                 !.pc = "save",
                                 !.doc = Document(FreshId,
                                             MapTrim(req.people.val),
                                             NewDate(req.startDate.val[1]).t,
                                             now, now) ] ]
    /\ UNCHANGED << now, apiKeyEnv >>
    /\ UNCHANGED coreVars

\* POST /schedule from the completion of save to its answer
PostSave(h) ==
    /\ handlers[h].pc = "save"
    /\ handlers[h].method = "POST"
    /\ \E ok \in BOOLEAN :
        LET hr == handlers[h]
        IN  IF ~ok
            THEN /\ handlers' = [ handlers EXCEPT ![h] =
                                      Answer(hr, 500, Error("save failed")) ]
                 /\ store' = store
            ELSE /\ store' = store \cup { hr.doc }
                 /\ handlers' = [ handlers EXCEPT ![h] =
                        Answer(hr, 201,
                               ScheduleBody("Schedule created successfully",
                                            hr.doc, now)) ]
    /\ UNCHANGED << now, apiKeyEnv >>
    /\ UNCHANGED coreVars

\* PUT /schedule up to its first await: requireApiKey and the call of findOne
PutSchedule(h, req) ==
    /\ handlers[h].pc = "idle"
    /\ LET auth == requireApiKey(req.apiKey, apiKeyEnv)
           hr   == Arrived("PUT", req)
       IN  handlers' = [ handlers EXCEPT ![h] =
               IF auth = 401 THEN Answer(hr, 401, Error("API key required"))
               ELSE IF auth = 403 THEN Answer(hr, 403, Error("Invalid API key"))
               ELSE [ hr EXCEPT !.pc = "findOne" ] ]
    /\ UNCHANGED << now, store, apiKeyEnv >>
    /\ UNCHANGED coreVars

\* any array of the body, the empty one too, replaces the people
PutSetsPeopleAnyArray(req) == ~Falsy(req.people) /\ IsArray(req.people)

\* the people of the body replace those of the document
PutSetsPeople(req) ==
    ~Falsy(req.people) /\ IsArray(req.people) /\ Len(req.people.val) > 0

\* a PUT /schedule that saves what it has set so far before it answers 400
\* to an unparseable start date
PutUpdateSavingFirst(hr, found, t) ==
    LET req   == hr.req
        withP == IF PutSetsPeople(req)
                 THEN [ found EXCEPT !.people = MapTrim(req.people.val) ]
                 ELSE found
    IN  IF PutSetsPeople(req) /\ ~MapTrimReturns(req.people.val)
        THEN Answer(hr, 500, Error("person.trim is not a function"))
        ELSE [ hr EXCEPT
                 !.pc = "save",
                 !.doc = [ withP EXCEPT
                             !.startDate =
                                 IF Falsy(req.startDate)
                                     \/ ~NewDate(req.startDate.val[1]).valid
                                 THEN @
                                 ELSE NewDate(req.startDate.val[1]).t,
                             !.updatedAt = t ],
                 !.modified = (IF PutSetsPeople(req) THEN { "people" }
                               ELSE {}) \cup { "startDate", "updatedAt" } ]

\* PUT /schedule from the completion of findOne to the call of save, on the
\* document found
PutUpdate(hr, found, t) ==
    LET req      == hr.req
        withP    == IF PutSetsPeople(req)
                    THEN [ found EXCEPT !.people = MapTrim(req.people.val) ]
                    ELSE found
        parsed   == NewDate(req.startDate.val[1])
        withD    == IF Falsy(req.startDate) THEN withP
                    ELSE [ withP EXCEPT !.startDate = parsed.t ]
        modified == (IF PutSetsPeople(req) THEN { "people" } ELSE {})
                        \cup (IF Falsy(req.startDate) THEN {}
                              ELSE { "startDate" })
                        \cup { "updatedAt" }
    IN  IF PutSetsPeople(req) /\ ~MapTrimReturns(req.people.val)
        THEN Answer(hr, 500, Error("person.trim is not a function"))
        ELSE IF ~Falsy(req.startDate) /\ ~parsed.valid
        THEN Answer(hr, 400, Error("Invalid start date format"))
        ELSE [ hr EXCEPT !.pc = "save",
                         !.doc = [ withD EXCEPT !.updatedAt = t ],
                         !.modified = modified ]

PutFindOne(h) ==
    /\ handlers[h].pc = "findOne"
    /\ handlers[h].method = "PUT"
    /\ \E ok \in BOOLEAN :
       \E found \in IF store = {} THEN { NoDoc } ELSE FindOneResults(store) :
        LET hr == handlers[h]
        IN  handlers' = [ handlers EXCEPT ![h] =
                IF ~ok THEN Answer(hr, 500, Error("findOne failed"))
                ELSE IF store = {}
                THEN Answer(hr, 404, Error("No schedule found to update"))
                ELSE PutUpdate(hr, found, now) ]
    /\ UNCHANGED << now, store, apiKeyEnv >>
    /\ UNCHANGED coreVars

\* schedule.save() of a document that was found: the paths set since then
\* are written to the stored document of the same _id
SavedOver(stored, doc, modified) ==
    [ stored EXCEPT
        !.people    = IF "people" \in modified THEN doc.people ELSE @,
        !.startDate = IF "startDate" \in modified THEN doc.startDate ELSE @,
        !.updatedAt = IF "updatedAt" \in modified THEN doc.updatedAt ELSE @ ]

\* PUT /schedule from the completion of save to its answer; save fails when
\* no stored document has the _id any more
PutSave(h) ==
    /\ handlers[h].pc = "save"
    /\ handlers[h].method = "PUT"
    /\ \E ok \in BOOLEAN :
        LET hr      == handlers[h]
            targets == { r \in store : r.id = hr.doc.id }
        IN  IF ~ok \/ targets = {}
            THEN /\ handlers' = [ handlers EXCEPT ![h] =
                                      Answer(hr, 500, Error("save failed")) ]
                 /\ store' = store
            ELSE /\ store' = (store \ targets) \cup
                        { SavedOver(r, hr.doc, hr.modified) : r \in targets }
                 /\ handlers' = [ handlers EXCEPT ![h] =
                        Answer(hr, 200,
                               ScheduleBody("Schedule updated successfully",
                                            hr.doc, now)) ]
    /\ UNCHANGED << now, apiKeyEnv >>
    /\ UNCHANGED coreVars

\* DELETE /schedule up to its await: requireApiKey and the call of deleteMany
DeleteSchedule(h, req) ==
    /\ handlers[h].pc = "idle"
    /\ LET auth == requireApiKey(req.apiKey, apiKeyEnv)
           hr   == Arrived("DELETE", req)
       IN  handlers' = [ handlers EXCEPT ![h] =
               IF auth = 401 THEN Answer(hr, 401, Error("API key required"))
               ELSE IF auth = 403 THEN Answer(hr, 403, Error("Invalid API key"))
               ELSE [ hr EXCEPT !.pc = "deleteMany" ] ]
    /\ UNCHANGED << now, store, apiKeyEnv >>
    /\ UNCHANGED coreVars

\* DELETE /schedule from the completion of deleteMany to its answer
DeleteDeleteMany(h) ==
    /\ handlers[h].pc = "deleteMany"
    /\ handlers[h].method = "DELETE"
    /\ \E ok \in BOOLEAN :
        LET hr == handlers[h]
        IN  IF ~ok
            THEN /\ handlers' =
                        [ handlers EXCEPT ![h] =
                              Answer(hr, 500, Error("deleteMany failed")) ]
                 /\ store' = store
            ELSE /\ store' = {}
                 /\ handlers' = [ handlers EXCEPT ![h] =
                        IF store = {}
                        THEN Answer(hr, 404,
                                    Error("No schedule found to delete"))
                        ELSE Answer(hr, 200, [ message |->
                                        "Schedule deleted successfully" ]) ]
    /\ UNCHANGED << now, apiKeyEnv >>
    /\ UNCHANGED coreVars

\* GET /schedule up to its await: no middleware, the call of findOne
GetSchedule(h, req) ==
    /\ handlers[h].pc = "idle"
    /\ handlers' = [ handlers EXCEPT ![h] =
                         [ Arrived("GET /schedule", req) EXCEPT
                               !.pc = "findOne" ] ]
    /\ UNCHANGED << now, store, apiKeyEnv >>
    /\ UNCHANGED coreVars

\* GET /schedule from the completion of findOne through getCurrentRotation,
\* which reads the clock
GetScheduleFindOne(h) ==
    /\ handlers[h].pc = "findOne"
    /\ handlers[h].method = "GET /schedule"
    /\ \E ok \in BOOLEAN :
       \E found \in IF store = {} THEN { NoDoc } ELSE FindOneResults(store) :
        LET hr == handlers[h]
        IN  handlers' = [ handlers EXCEPT ![h] =
                IF ~ok THEN Answer(hr, 500, Error("findOne failed"))
                ELSE IF store = {}
                THEN Answer(hr, 404, Error("No schedule found"))
                ELSE [ hr EXCEPT
                         !.pc = "upcoming",
                         !.doc = found,
                         !.cur = getCurrentRotation(found.startDate,
                                                    found.people, now) ] ]
    /\ UNCHANGED << now, store, apiKeyEnv >>
    /\ UNCHANGED coreVars

\* GET /schedule from getUpcomingRotations, which reads the clock again, to
\* its answer
GetScheduleUpcoming(h) ==
    /\ handlers[h].pc = "upcoming"
    /\ LET hr  == handlers[h]
           doc == hr.doc
       IN  handlers' = [ handlers EXCEPT ![h] =
               Answer(hr, 200,
                      [ people |-> doc.people,
                        startDate |-> doc.startDate,
                        currentRotation |-> hr.cur,
                        upcomingRotations |->
                            getUpcomingRotations(doc.startDate, doc.people,
                                                 now, DefaultCount),
                        createdAt |-> doc.createdAt,
                        updatedAt |-> doc.updatedAt ]) ]
    /\ UNCHANGED << now, store, apiKeyEnv >>
    /\ UNCHANGED coreVars

\* GET /current up to its await
GetCurrent(h, req) ==
    /\ handlers[h].pc = "idle"
    /\ handlers' = [ handlers EXCEPT ![h] =
                         [ Arrived("GET /current", req) EXCEPT
                               !.pc = "findOne" ] ]
    /\ UNCHANGED << now, store, apiKeyEnv >>
    /\ UNCHANGED coreVars

\* GET /current from the completion of findOne to its answer
GetCurrentFindOne(h) ==
    /\ handlers[h].pc = "findOne"
    /\ handlers[h].method = "GET /current"
    /\ \E ok \in BOOLEAN :
       \E found \in IF store = {} THEN { NoDoc } ELSE FindOneResults(store) :
        LET hr  == handlers[h]
            cur == getCurrentRotation(found.startDate, found.people, now)
        IN  handlers' = [ handlers EXCEPT ![h] =
                IF ~ok THEN Answer(hr, 500, Error("findOne failed"))
                ELSE IF store = {}
                THEN Answer(hr, 404, Error("No schedule found"))
                ELSE Answer([ hr EXCEPT !.doc = found ], 200,
                            [ currentPerson |-> cur.currentPerson,
                              rotationNumber |-> cur.rotationNumber,
                              periodStart |-> cur.periodStart,
                              periodEnd |-> cur.periodEnd,
                              isActive |-> cur.isActive ]) ]
    /\ UNCHANGED << now, store, apiKeyEnv >>
    /\ UNCHANGED coreVars

\* GET /health
GetHealth(h, req) ==
    /\ handlers[h].pc = "idle"
    /\ handlers' = [ handlers EXCEPT ![h] =
                         Answer(Arrived("GET /health", req), 200,
                                [ status |-> "OK", timestamp |-> now ]) ]
    /\ UNCHANGED << now, store, apiKeyEnv >>
    /\ UNCHANGED coreVars

\* the answer has been sent and the connection takes its next request
Respond(h) ==
    /\ handlers[h].pc = "done"
    /\ handlers' = [ handlers EXCEPT ![h] = IdleHandler ]
    /\ UNCHANGED << now, store, apiKeyEnv >>
    /\ UNCHANGED coreVars

\* the clock of the server: from noon of Sunday 2024-01-14, the last day of
\* a period of a schedule started on 2024-01-01, for HttpClockDays days
HttpClockDays == 1
HttpClockStart == DateUTC(2024, 0, 14, 12, 0, 0, 0)
HttpClockEnd == Inst(HttpClockStart.day + HttpClockDays, HttpClockStart.ms)

\* time passes, at any point of any handler
HttpTick ==
    /\ ~DateGeq(now, HttpClockEnd)
    /\ now' = NextInstant(now)
    /\ UNCHANGED << store, handlers, apiKeyEnv >>
    /\ UNCHANGED coreVars

\* the server after start-up: nothing stored, no request in progress
InitHttp ==
    /\ store = {}
    /\ handlers = [ h \in Handlers |-> IdleHandler ]
    /\ apiKeyEnv \in ApiKeyEnvs
    /\ now = HttpClockStart
    /\ people = SubSeq(Names, 1, 1)
    /\ startDate = Inst(AnchorWeekStart, 0)
    /\ call = NoCall
    /\ result = NoResult
    /\ prev = NoPrev

\* requests without a body, as the GET routes take them
GetRequests ==
    { Request(key, JsUndefined, JsUndefined) : key \in ApiKeyHeaders }

\* the steps of connection h on the protected routes
Write(h, bodies, deletes) ==
    \/ \E req \in bodies : PostSchedule(h, req)
    \/ PostDeleteMany(h)
    \/ PostSave(h)
    \/ \E req \in bodies : PutSchedule(h, req)
    \/ PutFindOne(h)
    \/ PutSave(h)
    \/ \E req \in deletes : DeleteSchedule(h, req)
    \/ DeleteDeleteMany(h)
    \/ Respond(h)

\* the steps of connection h on the public routes
Read(h, gets) ==
    \/ \E req \in gets : GetSchedule(h, req)
    \/ GetScheduleFindOne(h)
    \/ GetScheduleUpcoming(h)
    \/ \E req \in gets : GetCurrent(h, req)
    \/ GetCurrentFindOne(h)
    \/ \E req \in gets : GetHealth(h, req)

\* one request at a time
NextHttp ==
    \/ HttpTick
    \/ Write("h1", Requests, GetRequests)
    \/ Read("h1", GetRequests)

SpecHttp == InitHttp /\ [][NextHttp]_vars

\* two clients that hold the API key and write at the same time: the
\* requests they send
RaceBodies ==
    { Request(JsString("secret"), JsArray(<< "A", "B" >>),
              JsString("2024-01-01")) }
RaceDeletes == { Request(JsString("secret"), JsUndefined, JsUndefined) }

InitRace ==
    /\ InitHttp
    /\ apiKeyEnv = "secret"

\* the handlers take turns at their awaits
NextRace == \E h \in Handlers : Write(h, RaceBodies, RaceDeletes)

SpecRace == InitRace /\ [][NextRace]_vars

----------------------------------------------------------------------------
(* What the claims are stated with *)

\* the day number of the Monday on or before day d, from the day of the week
\* alone (day 0, 1970-01-01, was a Thursday, so day -3 was a Monday)
WeekStartRef(d) == d - ((d + 3) % 7)

\* the anchor Monday of the schedule in use, as a day number
AnchorMondayDay == WeekStartRef(startDate.day)

Range(seq) == { seq[i] : i \in 1..Len(seq) }

IsCurrentCall == call.op = "getCurrentRotation"
IsUpcomingCall == call.op = "getUpcomingRotations"

\* the period index the clock is in: floor of the days since the anchor
\* Monday over 14
PeriodIndexRef == (now.day - AnchorMondayDay) \div PeriodDays

----------------------------------------------------------------------------
(* C1 *)

\* C1: for every non-empty people list, anchor date and clock reading, the
\* participant index of getCurrentRotation is an integer in [0, len(people))
\* and its participant an element of people; every entry of
\* getUpcomingRotations names an element of people; and one day before the
\* anchor Monday the participant index is len(people) - 1.
C1_ParticipantIndexInRange ==
    Len(people) > 0 =>
        /\ IsCurrentCall =>
              /\ ~result.currentPersonIndex.nan
              /\ result.currentPersonIndex.val \in 0..(Len(people) - 1)
              /\ result.currentPerson \in Range(people)
              /\ now.day = AnchorMondayDay - 1 =>
                    result.currentPersonIndex.val = Len(people) - 1
        /\ IsUpcomingCall =>
              \A i \in 1..Len(result) : result[i].person \in Range(people)

----------------------------------------------------------------------------
(* C2 *)

\* C2: for every integer n, getCurrentRotation called at the anchor Monday
\* plus 14 n days returns period index n (rotationNumber n + 1) and the
\* participant people[n mod len(people)].
C2_PeriodStartAssignment ==
    \A n \in (-PeriodsBefore)..PeriodsAfter :
        ( /\ IsCurrentCall
          /\ now = Inst(AnchorMondayDay + PeriodDays * n, 0) ) =>
            /\ result.rotationNumber = n + 1
            /\ result.currentPerson = people[(n % Len(people)) + 1]

----------------------------------------------------------------------------
(* C3 *)

\* C3: getMondayOfWeek(date) is a Monday at 00:00:00.000 UTC, not after date
\* and less than 7 days before it; for a date on a Sunday it is the Monday 6
\* days earlier, never the following Monday.
C3_MondayOnOrBefore ==
    LET monday == getMondayOfWeek(startDate)
    IN  /\ WeekDay(monday.day) = 1
        /\ monday.ms = 0
        /\ DateLeq(monday, startDate)
        /\ startDate.day - monday.day < 7
        /\ monday.day = WeekStartRef(startDate.day)
        /\ WeekDay(startDate.day) = 0 => monday.day = startDate.day - 6
        /\ IsCurrentCall /\ now = startDate => result.periodStart = monday

\* C3 witness: a schedule starting on Sunday 2024-01-07 was asked for its
\* current rotation on that day, and the period starts on Monday 2024-01-01.
C3_Witness ==
    /\ startDate.day = MakeDay(2024, 0, 7)
    /\ WeekDay(startDate.day) = 0
    /\ IsCurrentCall
    /\ now = startDate
    /\ result.periodStart = Inst(MakeDay(2024, 0, 1), 0)

----------------------------------------------------------------------------
(* C4 *)

\* the rotationNumber getCurrentRotation returns when the clock reads t
rotationNumberAt(t) == getCurrentRotation(startDate, people, t).rotationNumber

\* C4: with the anchor date and the people list fixed, whenever the clock
\* advances the rotationNumber returned by getCurrentRotation at the later
\* reading is at least the one returned at the earlier reading.
C4_RotationNumberMonotone ==
    [][ ( /\ now' # now
          /\ startDate' = startDate
          /\ people' = people
          /\ DateLeq(now, now') ) =>
            rotationNumberAt(now) <= rotationNumberAt(now') ]_vars

\* C4 witness: the clock has passed the anchor Monday's first period and
\* getCurrentRotation was called in a later one.
C4_Witness ==
    /\ IsCurrentCall
    /\ now.day >= AnchorMondayDay + PeriodDays
    /\ result.rotationNumber >= 2

----------------------------------------------------------------------------
(* C5 *)

\* the participant and the participant index returned when the clock reads t
personAt(t) == getCurrentRotation(startDate, people, t).currentPerson
personIndexAt(t) == getCurrentRotation(startDate, people, t).currentPersonIndex

\* C5: when the clock crosses from one 14-day period into the next, the
\* responsible participant moves from position k of people to position
\* (k + 1) mod len(people), the first following the last; while the clock
\* stays inside one period the participant stays the same.
C5_RotationStep ==
    [][ ( /\ now' # now
          /\ startDate' = startDate
          /\ people' = people ) =>
            IF rotationNumberAt(now') = rotationNumberAt(now)
            THEN personAt(now') = personAt(now)
            ELSE \E k \in 0..(Len(people) - 1) :
                    /\ personIndexAt(now) = Num(k)
                    /\ personAt(now) = people[k + 1]
                    /\ personIndexAt(now') = Num((k + 1) % Len(people))
                    /\ personAt(now') = people[((k + 1) % Len(people)) + 1] ]_vars

----------------------------------------------------------------------------
(* C6 *)

\* a > b on two Dates
DateGt(a, b) == ~DateLeq(a, b)

\* C6: entry i of getUpcomingRotations has rotationNumber equal to
\* getCurrentRotation's rotationNumber + i and participant
\* people[(currentPeriodIndex + i) mod len(people)], for the same people,
\* anchor date and clock reading; every entry starts strictly after now.
C6_ForecastContinuity ==
    IsUpcomingCall =>
        LET cur == getCurrentRotation(startDate, people, now)
            currentPeriodIndex == cur.rotationNumber - 1
        IN  \A i \in 1..Len(result) :
                /\ result[i].rotationNumber = cur.rotationNumber + i
                /\ result[i].person =
                       people[((currentPeriodIndex + i) % Len(people)) + 1]
                /\ DateGt(result[i].periodStart, now)

----------------------------------------------------------------------------
(* C7 *)

\* the period [periodStart, periodEnd] of a returned record with 1-based
\* rotationNumber r is the one the claim describes
PeriodBoundsOk(r, periodStart, periodEnd) ==
    /\ periodStart = Inst(AnchorMondayDay + PeriodDays * (r - 1), 0)
    /\ WeekDay(periodStart.day) = 1
    /\ periodEnd = Inst(periodStart.day + 13, MakeTime(23, 59, 59, 999))
    /\ WeekDay(periodEnd.day) = 0
    /\ (periodEnd.day - periodStart.day) * MsPerDay
           + (periodEnd.ms - periodStart.ms) = PeriodDays * MsPerDay - 1

\* C7: for every period index p used by getCurrentRotation or
\* getUpcomingRotations, periodStart is the anchor Monday + 14 p days at
\* 00:00:00.000 UTC (a Monday) and periodEnd is the day periodStart + 13 days
\* at 23:59:59.999 UTC (a Sunday), 14 days minus 1 millisecond later.
C7_PeriodBounds ==
    /\ IsCurrentCall =>
          PeriodBoundsOk(result.rotationNumber, result.periodStart,
                         result.periodEnd)
    /\ IsUpcomingCall =>
          \A i \in 1..Len(result) :
              PeriodBoundsOk(result[i].rotationNumber, result[i].periodStart,
                             result[i].periodEnd)

\* C7 witness: with the anchor Monday 2024-01-01 the first period was
\* returned, ending 2024-01-14T23:59:59.999Z.
C7_Witness ==
    /\ IsCurrentCall
    /\ AnchorMondayDay = MakeDay(2024, 0, 1)
    /\ result.rotationNumber = 1
    /\ result.periodEnd = Inst(MakeDay(2024, 0, 14), MsPerDay - 1)

----------------------------------------------------------------------------
(* C8 *)

\* C8: the elapsed days and the period index are floored toward negative
\* infinity: a clock reading in [anchor Monday + 14 n days, anchor Monday +
\* 14 (n + 1) days) gives period index n for negative n as well, so a
\* reading in the 14 days before the anchor Monday gives -1 (rotationNumber
\* 0), never 0; getUpcomingRotations counts on from the same index.
C8_FloorTowardNegativeInfinity ==
    /\ IsCurrentCall =>
          LET n == result.rotationNumber - 1
          IN  /\ AnchorMondayDay + PeriodDays * n <= now.day
              /\ now.day < AnchorMondayDay + PeriodDays * (n + 1)
              /\ result.daysSinceStart = now.day - AnchorMondayDay
              /\ ( /\ AnchorMondayDay - PeriodDays <= now.day
                    /\ now.day < AnchorMondayDay ) => n = -1
    /\ IsUpcomingCall /\ Len(result) > 0 =>
          LET n == result[1].rotationNumber - 2
          IN  /\ AnchorMondayDay + PeriodDays * n <= now.day
              /\ now.day < AnchorMondayDay + PeriodDays * (n + 1)

\* C8 witness: getCurrentRotation was called less than a day before the
\* anchor Monday, not on a day boundary, and returned rotationNumber 0.
C8_Witness ==
    /\ IsCurrentCall
    /\ now.day = AnchorMondayDay - 1
    /\ now.ms > 0
    /\ result.rotationNumber = 0
    /\ result.daysSinceStart = -1

----------------------------------------------------------------------------
(* C9 *)

\* C9: getUpcomingRotations returns exactly count entries for count >= 0 (5
\* when count is omitted) and none for count <= 0, in strictly increasing
\* order of rotationNumber.
C9_ForecastLength ==
    IsUpcomingCall =>
        /\ call.countGiven /\ call.count >= 0 => Len(result) = call.count
        /\ call.countGiven /\ call.count <= 0 => result = << >>
        /\ ~call.countGiven => Len(result) = 5
        /\ \A i \in 1..(Len(result) - 1) :
               result[i].rotationNumber < result[i + 1].rotationNumber

\* C9 witness: a call without count returned 5 entries.
C9_Witness ==
    /\ IsUpcomingCall
    /\ ~call.countGiven
    /\ Len(result) = 5
    /\ result[5].rotationNumber = result[1].rotationNumber + 4

----------------------------------------------------------------------------
(* C10 *)

\* the call in progress was made with an argument the contract excludes
InvalidArgument ==
    \/ ~Idle /\ people = << >>
    \/ IsUpcomingCall /\ call.count < 0

-----------------------------------------------------------------------------
(* C13 *)

-----------------------------------------------------------------------------
(* C15 *)

\* C15: for every anchor date, people list and clock reading, before or
\* after the anchor, getCurrentRotation returns periodStart <= now <=
\* periodEnd, and isActive is true.
C15_CurrentPeriodContainsNow ==
    IsCurrentCall =>
        /\ DateLeq(result.periodStart, now)
        /\ DateLeq(now, result.periodEnd)
        /\ result.isActive = TRUE

\* a reading in the last millisecond of a period that lies before the anchor
C15_Witness ==
    /\ IsCurrentCall
    /\ result.isActive = TRUE
    /\ now = result.periodEnd
    /\ DateGt(startDate, now)

-----------------------------------------------------------------------------
(* C20 *)

\* the instant one millisecond after t
PlusOneMs(t) ==
    IF t.ms = MsPerDay - 1 THEN Inst(t.day + 1, 0) ELSE Inst(t.day, t.ms + 1)

-----------------------------------------------------------------------------
(* C12 *)

\* the routes behind requireApiKey, and the public ones
Protected == { "POST", "PUT", "DELETE" }
Public == { "GET /schedule", "GET /current", "GET /health" }

\* the request of a handler carries no key (no header, or an empty one), or
\* a key other than the configured one
KeyMissing(hr) == Falsy(hr.req.apiKey)
KeyWrong(hr) == ~Falsy(hr.req.apiKey) /\ hr.req.apiKey.val[1] # apiKeyEnv

Answered(hr) == hr.pc = "done"
Running(hr) == hr.pc \notin { "idle", "done" }

\* C12: a POST, PUT or DELETE /schedule request without an X-API-Key is
\* answered 401 and one whose key differs from the configured API key is
\* answered 403, also when no API key is configured; in both cases the
\* handler never runs and the collection is as it was when the request
\* arrived.  GET /schedule, GET /current and GET /health are never answered
\* 401 or 403, whatever the header.
C12_ApiKeyRequired ==
    \A h \in Handlers :
        LET hr == handlers[h]
        IN  /\ (hr.method \in Protected /\ Answered(hr) /\ KeyMissing(hr))
                   => (hr.resp.status = 401 /\ store = hr.before)
            /\ (hr.method \in Protected /\ Answered(hr) /\ KeyWrong(hr))
                   => (hr.resp.status = 403 /\ store = hr.before)
            /\ (hr.method \in Protected /\ Running(hr))
                   => (~KeyMissing(hr) /\ ~KeyWrong(hr))
            /\ (hr.method \in Public /\ ~(hr.pc = "idle"))
                   => hr.resp.status \notin { 401, 403 }

\* a DELETE with another key than the configured one, answered 403 with the
\* schedule still stored
C12_Witness ==
    /\ handlers["h1"].method = "DELETE"
    /\ Answered(handlers["h1"])
    /\ handlers["h1"].req.apiKey = JsString("guess")
    /\ handlers["h1"].resp.status = 403
    /\ store # {}
    /\ store = handlers["h1"].before

-----------------------------------------------------------------------------
(* C14 *)

\* a people value that is missing, not an array, or an empty array
NoPeopleGiven(req) ==
    Falsy(req.people) \/ ~IsArray(req.people) \/ Len(req.people.val) = 0

\* the request of the handler passed requireApiKey
KeyAccepted(hr) == ~KeyMissing(hr) /\ ~KeyWrong(hr)

\* the people lists of the collection, by _id
PeopleById(coll) == { << r.id, r.people >> : r \in coll }

\* C14: every stored schedule has a people list of at least one element, and
\* so has every document a handler passes to getCurrentRotation or
\* getUpcomingRotations; a POST with a missing, non-array or empty people
\* value is answered 400, and a PUT with such a value leaves the stored
\* people list as it was.
C14_PeopleNonEmpty ==
    /\ \A r \in store : Len(r.people) >= 1
    /\ \A h \in Handlers :
        LET hr == handlers[h]
        IN  /\ hr.doc.id # 0 => Len(hr.doc.people) >= 1
            /\ (hr.method = "POST" /\ Answered(hr) /\ KeyAccepted(hr)
                    /\ NoPeopleGiven(hr.req))
                   => (hr.resp.status = 400 /\ store = hr.before)
            /\ (hr.method = "PUT" /\ Answered(hr) /\ KeyAccepted(hr)
                    /\ NoPeopleGiven(hr.req))
                   => PeopleById(store) = PeopleById(hr.before)

\* a PUT with an empty people array and a start date, answered 200: the
\* start date is stored, the people list is the one stored before
C14_Witness ==
    /\ handlers["h1"].method = "PUT"
    /\ Answered(handlers["h1"])
    /\ handlers["h1"].req.people = JsArray(<< >>)
    /\ handlers["h1"].resp.status = 200
    /\ store # handlers["h1"].before
    /\ PeopleById(store) = PeopleById(handlers["h1"].before)
    /\ \E r \in store : r.people = << "A", "B" >>

-----------------------------------------------------------------------------
(* C16 *)

\* C16: in every 200 answer of GET /schedule, upcomingRotations[0] has
\* rotationNumber currentRotation.rotationNumber + 1 and a periodStart 1 ms
\* after currentRotation.periodEnd, whatever the clock does between the two
\* readings of it.
C16_ForecastFollowsCurrent ==
    \A h \in Handlers :
        LET hr == handlers[h]
        IN  (hr.method = "GET /schedule" /\ Answered(hr)
                 /\ hr.resp.status = 200)
            => LET cur  == hr.resp.body.currentRotation
                   next == hr.resp.body.upcomingRotations[1]
               IN  /\ next.rotationNumber = cur.rotationNumber + 1
                   /\ next.periodStart = PlusOneMs(cur.periodEnd)

-----------------------------------------------------------------------------
(* C11 *)

\* C11: after any sequence and any interleaving of POST, PUT and DELETE
\* /schedule requests, two POST handlers whose deleteMany and save steps
\* interleave included, the collection holds at most one schedule (which
\* after a POST answered 201 is the one that POST created).
C11_SingleSchedule == Cardinality(store) <= 1

-----------------------------------------------------------------------------
(* C17 *)

\* C17: a POST /schedule answered with an error status (400 for a failed
\* validation, 500 for an exception such as a person that is not a string
\* or a failed save) leaves the stored schedule as it was: the existing
\* document is removed only when the new one is stored and 201 returned.
C17_FailedPostKeepsSchedule ==
    \A h \in Handlers :
        LET hr == handlers[h]
        IN  (hr.method = "POST" /\ Answered(hr)
                 /\ hr.resp.status \in { 400, 500 })
            => store = hr.before

-----------------------------------------------------------------------------
(* C18 *)

\* a field of the documents of the collection, by _id
StartDateById(coll) == { << r.id, r.startDate >> : r \in coll }
CreatedAtById(coll) == { << r.id, r.createdAt >> : r \in coll }

\* the handler was answered 500 because a database call was rejected
DatabaseFailed(hr) ==
    /\ hr.resp.status = 500
    /\ hr.resp.body \in { Error("findOne failed"), Error("save failed"),
                          Error("deleteMany failed") }

\* C18: PUT /schedule changes only the fields that are supplied and valid:
\* with no people in the body, or an empty or non-array people, the stored
\* people list is unchanged; with no startDate the stored startDate is
\* unchanged; createdAt is never changed; a people array and a start date
\* that are given and valid are stored; with no stored schedule the answer
\* is 404, unless the database call fails, and no document is created.
C18_PutChangesOnlySupplied ==
    \A h \in Handlers :
        LET hr == handlers[h]
        IN  (hr.method = "PUT" /\ Answered(hr)) =>
              /\ NoPeopleGiven(hr.req)
                     => PeopleById(store) = PeopleById(hr.before)
              /\ Falsy(hr.req.startDate)
                     => StartDateById(store) = StartDateById(hr.before)
              /\ CreatedAtById(store) = CreatedAtById(hr.before)
              /\ hr.resp.status = 200 =>
                     \A r \in store :
                        /\ ~NoPeopleGiven(hr.req)
                               => r.people = MapTrim(hr.req.people.val)
                        /\ ~Falsy(hr.req.startDate)
                               => r.startDate =
                                      NewDate(hr.req.startDate.val[1]).t
              /\ hr.before = {} => store = {}
              /\ (hr.before = {} /\ KeyAccepted(hr) /\ ~DatabaseFailed(hr))
                     => hr.resp.status = 404

\* a PUT with a start date only, answered 200, on a schedule created at an
\* earlier time: the start date and updatedAt change, the people and
\* createdAt do not
C18_Witness ==
    /\ handlers["h1"].method = "PUT"
    /\ Answered(handlers["h1"])
    /\ handlers["h1"].resp.status = 200
    /\ handlers["h1"].req.people = JsUndefined
    /\ StartDateById(store) # StartDateById(handlers["h1"].before)
    /\ PeopleById(store) = PeopleById(handlers["h1"].before)
    /\ \E r \in store : r.updatedAt # r.createdAt

-----------------------------------------------------------------------------
(* C19 *)

\* the start date of the request is present and new Date cannot parse it
StartDateUnparseable(req) ==
    ~Falsy(req.startDate) /\ ~NewDate(req.startDate.val[1]).valid

\* the handler was answered 500 because a person of its request has no trim
TrimThrew(hr) ==
    /\ hr.resp.status = 500
    /\ hr.resp.body = Error("person.trim is not a function")

====
